---- MODULE Spec2Model ----
(***************************************************************************)
(* GSP (General Search Parser): a filter-query language.  A query string   *)
(* is parsed to a raw Relation tree, lowered to the canonical Expression   *)
(* tree, and interpreted either by the evaluation backend                  *)
(* (interpreter/evaluate.rs) or by the SQLite compiling backend            *)
(* (interpreter/sqlite.rs).                                                *)
(*                                                                         *)
(* Strings are modelled as sequences of one-character strings, so that     *)
(* replace(), format!() and the parsers work character by character.       *)
(***************************************************************************)
EXTENDS Integers, Sequences, FiniteSets, TLC

VARIABLES
    expression,   \* the Expression handed to a backend (lib.rs Expression)
    renames,      \* SqliteRenames: logical field name -> column name
    types,        \* SqliteTypes: logical field name -> SqliteType shape
    rules,        \* EvaluateRules: field name -> EvaluateRule
    pairs,        \* EvaluatePairs: field name -> current value
    input,        \* the query text handed to Expression::from_str
    compiled,     \* result of sqlite::interpret, or NotRun
    evaluated,    \* result of evaluate::interpret, or NotRun
    parsed        \* result of Expression::from_str, or NotRun

vars == <<expression, renames, types, rules, pairs, input, compiled, evaluated, parsed>>

(***************************************************************************)
(* Bounds of the model.                                                    *)
(***************************************************************************)
\* largest number of nodes of a composite Expression tree
MaxNodes == 3
\* largest number of candidates of a membership (Any) leaf
MaxTargets == 2
\* largest number of characters of a text literal's content
MaxLen == 4

(***************************************************************************)
(* Generic helpers on strings (sequences of characters) and maps.          *)
(***************************************************************************)
NotRun == [ran |-> FALSE]

EmptyMap == [k \in {} |-> <<>>]

\* HashMap::contains_key
contains_key(map, key) == key \in DOMAIN map

\* all sequences over S of length at most n
RECURSIVE SeqsUpTo(_, _)
SeqsUpTo(S, n) ==
    IF n = 0 THEN {<<>>}
    ELSE LET shorter == SeqsUpTo(S, n - 1)
         IN  shorter \cup {Append(s, x) : s \in {t \in shorter : Len(t) = n - 1}, x \in S}

\* all maps from a subset of Keys to Vals (the HashMaps a caller can build)
MapsOver(Keys, Vals) == UNION {[D -> Vals] : D \in SUBSET Keys}

\* str::replace for a one-character pattern: every occurrence of `from`
\* becomes `to`, scanning left to right
RECURSIVE replace(_, _, _)
replace(s, from, to) ==
    IF s = <<>> THEN <<>>
    ELSE <<IF Head(s) = from THEN to ELSE Head(s)>> \o replace(Tail(s), from, to)

\* number of occurrences of character ch in s
RECURSIVE CountChar(_, _)
CountChar(s, ch) ==
    IF s = <<>> THEN 0
    ELSE (IF Head(s) = ch THEN 1 ELSE 0) + CountChar(Tail(s), ch)

\* Vec<&str>::join(sep)
RECURSIVE join(_, _)
join(parts, sep) ==
    IF parts = <<>> THEN <<>>
    ELSE IF Len(parts) = 1 THEN parts[1]
    ELSE parts[1] \o sep \o join(Tail(parts), sep)

(***************************************************************************)
(* parser/atom.rs: text, array and the operator tags, on the nom           *)
(* combinators they are built from.  A parser takes the remaining input    *)
(* and returns Parsed(rest, value) or NoParse(input at the failure).       *)
(***************************************************************************)
Parsed(rest, val) == [ok |-> TRUE, rest |-> rest, val |-> val]
NoParse(at) == [ok |-> FALSE, at |-> at]

\* nom tag(t)
tag(t, in) ==
    IF Len(in) >= Len(t) /\ SubSeq(in, 1, Len(t)) = t
    THEN Parsed(SubSeq(in, Len(t) + 1, Len(in)), t)
    ELSE NoParse(in)

\* nom space0: any run of spaces and tabs, also the empty one
RECURSIVE space0(_)
space0(in) ==
    IF in # <<>> /\ Head(in) \in {" ", "\t"}
    THEN LET r == space0(Tail(in)) IN Parsed(r.rest, <<Head(in)>> \o r.val)
    ELSE Parsed(in, <<>>)

\* nom escaped(none_of("\\\""), '\\', one_of("\\\"")): `i` is what is left of
\* `in`; plain characters and escaped `\` or `"` are consumed until neither
\* comes next
RECURSIVE escaped(_, _)
escaped(in, i) ==
    IF i = <<>> THEN Parsed(<<>>, in)
    ELSE IF Head(i) \notin {"\\", "\""} THEN escaped(in, Tail(i))
    ELSE IF Head(i) = "\\"
         THEN IF Len(i) <= 1 THEN NoParse(in)
              ELSE IF i[2] \in {"\\", "\""} THEN escaped(in, SubSeq(i, 3, Len(i)))
              ELSE NoParse(Tail(i))
    ELSE IF Len(i) = Len(in) THEN NoParse(in)
    ELSE Parsed(i, SubSeq(in, 1, Len(in) - Len(i)))

\* str::replace for a two-character pattern: each occurrence of <<a, b>>
\* becomes <<to>>, scanning left to right without overlap
RECURSIVE replace_pair(_, _, _, _)
replace_pair(s, a, b, to) ==
    IF Len(s) < 2 THEN s
    ELSE IF s[1] = a /\ s[2] = b THEN <<to>> \o replace_pair(SubSeq(s, 3, Len(s)), a, b, to)
    ELSE <<Head(s)>> \o replace_pair(Tail(s), a, b, to)

\* mutant of unescape: the second replace is left out
unescape_backslash_only(s) == replace_pair(s, "\\", "\\", "\\")

\* s.replace("\\\\", "\\").replace("\\\"", "\"")
unescape(s) == replace_pair(replace_pair(s, "\\", "\\", "\\"), "\\", "\"", "\"")

\* the parser a name of a sequence stands for (defined after the parsers)
RECURSIVE parser(_, _)

\* a nom sequence (delimited, pair, a tuple of parsers): each parser runs on
\* what the previous one left; the result is the tuple of their values, or
\* the first failure
RECURSIVE tuple(_, _)
tuple(parsers, in) ==
    IF parsers = <<>> THEN Parsed(in, <<>>)
    ELSE LET first == parser(Head(parsers), in)
         IN  IF ~first.ok THEN first
             ELSE LET others == tuple(Tail(parsers), first.rest)
                  IN  IF ~others.ok THEN others
                      ELSE Parsed(others.rest, <<first.val>> \o others.val)

\* alt((esc, tag(""))): the escaped run, or the empty text when it fails
esc_or_empty(in) ==
    LET esc == escaped(in, in)
    IN  IF esc.ok THEN esc ELSE tag(<<>>, in)

\* atom::text
text(in) ==
    LET r == tuple(<<"\"", "esc_or_empty", "\"">>, in)
    IN  IF ~r.ok THEN r ELSE Parsed(r.rest, unescape(r.val[2]))

\* nom separated_list0((space0, tag(","), space0), text): the texts read so
\* far are `acc`; a separator not followed by a text is left unconsumed
RECURSIVE separated_texts(_, _)
separated_texts(in, acc) ==
    LET more == tuple(<<"space0", ",", "space0", "text">>, in)
    IN  IF ~more.ok THEN Parsed(in, acc)
        ELSE separated_texts(more.rest, Append(acc, more.val[4]))

separated_list0(in) ==
    LET first == text(in)
    IN  IF ~first.ok THEN Parsed(in, <<>>)
        ELSE separated_texts(first.rest, <<first.val>>)

\* atom::array
array(in) ==
    LET r == tuple(<<"[", "space0", "separated_list0", "space0", "]">>, in)
    IN  IF ~r.ok THEN r ELSE Parsed(r.rest, r.val[3])

(***************************************************************************)
(* parser/comparison.rs: the Comparison leaf of the raw tree and its       *)
(* parser, as the grammar gives them: text op text, text ? array, text -.  *)
(***************************************************************************)
\* the six leaves with a text operand, IsAny with its array, IsNull
Comparison(kind, left, right) == [cmp |-> kind, left |-> left, right |-> right]
Comparison_IsAny(left, right) == [cmp |-> "IsAny", left |-> left, array |-> right]
Comparison_IsNull(left) == [cmp |-> "IsNull", left |-> left]

\* the raw leaf kind of each operator character
ComparisonKind(op) ==
    CASE op = "=" -> "IsEqual"
      [] op = "~" -> "IsEqualCI"
      [] op = ">" -> "IsGreater"
      [] op = "<" -> "IsLess"
      [] op = "*" -> "IsWildcard"
      [] op = "$" -> "IsRegex"
      [] op = "?" -> "IsAny"
      [] op = "-" -> "IsNull"

OperandOperators == {"=", "~", ">", "<", "*", "$"}

\* the operator at the head of `at` and the operand it takes, after the
\* field name `left`
comparison_operand(left, at) ==
    IF at = <<>> THEN NoParse(at)
    ELSE IF Head(at) \in OperandOperators
         THEN LET right == tuple(<<"space0", "text">>, Tail(at))
              IN  IF ~right.ok THEN right
                  ELSE Parsed(right.rest,
                              Comparison(ComparisonKind(Head(at)), left, right.val[2]))
    ELSE IF Head(at) = "?"
         THEN LET right == tuple(<<"space0", "array">>, Tail(at))
              IN  IF ~right.ok THEN right
                  ELSE Parsed(right.rest, Comparison_IsAny(left, right.val[2]))
    ELSE IF Head(at) = "-"
         THEN Parsed(Tail(at), Comparison_IsNull(left))
    ELSE NoParse(at)

comparison(in) ==
    LET left == tuple(<<"text", "space0">>, in)
    IN  IF ~left.ok THEN left ELSE comparison_operand(left.val[1], left.rest)

(***************************************************************************)
(* parser/relation.rs: the raw Relation tree and its parser.               *)
(***************************************************************************)
Relation_C(cmp) == [rel |-> "C", c |-> cmp]
Relation_Binary(form, left, right) == [rel |-> form, left |-> left, right |-> right]
Relation_NR(r) == [rel |-> "NR", r |-> r]
Relation_NC(cmp) == [rel |-> "NC", c |-> cmp]

ConjunctionForms == {"Rar", "Rac", "Car", "Cac"}
DisjunctionForms == {"Ror", "Roc", "Cor", "Coc"}
\* the forms whose left / right operand is a relation
LeftRelationForms == {"Rar", "Rac", "Ror", "Roc"}
RightRelationForms == {"Rar", "Car", "Ror", "Cor"}

group_start(in) == tag(<<"(">>, in)
group_end(in) == tag(<<")">>, in)

\* relation::c
c(in) ==
    LET r == tuple(<<"group_start", "space0", "comparison", "space0", "group_end">>, in)
    IN  IF ~r.ok THEN r ELSE Parsed(r.rest, Relation_C(r.val[3]))

RECURSIVE relation(_)

\* the parsers bi_relation! generates: rar, rac, car, cac, ror, roc, cor, coc
bi_relation(form, in) ==
    LET r == tuple(<<"group_start", "space0",
                     IF form \in LeftRelationForms THEN "relation" ELSE "comparison",
                     "space0",
                     IF form \in ConjunctionForms THEN "and" ELSE "or",
                     "space0",
                     IF form \in RightRelationForms THEN "relation" ELSE "comparison",
                     "space0", "group_end">>, in)
    IN  IF ~r.ok THEN r ELSE Parsed(r.rest, Relation_Binary(form, r.val[3], r.val[7]))

\* the parsers uni_relation! generates: nr, nc
uni_relation(form, in) ==
    LET r == tuple(<<"group_start", "space0", "not", "space0",
                     IF form = "NR" THEN "relation" ELSE "comparison",
                     "space0", "group_end">>, in)
    IN  IF ~r.ok THEN r
        ELSE Parsed(r.rest, IF form = "NR" THEN Relation_NR(r.val[5]) ELSE Relation_NC(r.val[5]))

\* the alternatives of relation::relation, in the order alt tries them
Alternatives == <<"C", "Rar", "Rac", "Car", "Cac", "Ror", "Roc", "Cor", "Coc", "NR", "NC">>

alternative(form, in) ==
    IF form = "C" THEN c(in)
    ELSE IF form \in {"NR", "NC"} THEN uni_relation(form, in)
    ELSE bi_relation(form, in)

\* nom alt: the first alternative that parses; the last one's error if none
RECURSIVE alt(_, _)
alt(forms, in) ==
    LET r == alternative(Head(forms), in)
    IN  IF r.ok \/ Len(forms) = 1 THEN r ELSE alt(Tail(forms), in)

\* relation::relation
relation(in) == alt(Alternatives, in)

\* the parsers the sequences above name
parser(name, in) ==
    CASE name \in {"\"", "[", "]", ","} -> tag(<<name>>, in)
      [] name = "and" -> tag(<<"&">>, in)
      [] name = "or" -> tag(<<"|">>, in)
      [] name = "not" -> tag(<<"!">>, in)
      [] name = "space0" -> space0(in)
      [] name = "esc_or_empty" -> esc_or_empty(in)
      [] name = "text" -> text(in)
      [] name = "separated_list0" -> separated_list0(in)
      [] name = "array" -> array(in)
      [] name = "comparison" -> comparison(in)
      [] name = "group_start" -> group_start(in)
      [] name = "group_end" -> group_end(in)
      [] name = "relation" -> relation(in)

(***************************************************************************)
(* interpreter/sqlite.rs: typed values and literal parsing.                *)
(***************************************************************************)
Digits == {"0", "1", "2", "3", "4", "5", "6", "7", "8", "9"}

DigitVal(ch) ==
    CASE ch = "0" -> 0 [] ch = "1" -> 1 [] ch = "2" -> 2 [] ch = "3" -> 3
      [] ch = "4" -> 4 [] ch = "5" -> 5 [] ch = "6" -> 6 [] ch = "7" -> 7
      [] ch = "8" -> 8 [] ch = "9" -> 9

\* Integers are kept as canonical decimal numerals (no sign, no leading zero),
\* so that values beyond 32 bits stay exact.
\* i32::MAX and i64::MAX, and the magnitudes of i32::MIN and i64::MIN
I32Max == <<"2", "1", "4", "7", "4", "8", "3", "6", "4", "7">>
I32MinMagnitude == <<"2", "1", "4", "7", "4", "8", "3", "6", "4", "8">>
I64Max == <<"9", "2", "2", "3", "3", "7", "2", "0", "3", "6",
            "8", "5", "4", "7", "7", "5", "8", "0", "7">>
I64MinMagnitude == <<"9", "2", "2", "3", "3", "7", "2", "0", "3", "6",
                     "8", "5", "4", "7", "7", "5", "8", "0", "8">>

RECURSIVE StripLeadingZeros(_)
StripLeadingZeros(s) ==
    IF s = <<>> THEN <<"0">>
    ELSE IF Head(s) = "0" THEN StripLeadingZeros(Tail(s))
    ELSE s

\* a > b for two numerals of the same length
RECURSIVE LexGreater(_, _)
LexGreater(a, b) ==
    IF a = <<>> THEN FALSE
    ELSE IF Head(a) # Head(b) THEN DigitVal(Head(a)) > DigitVal(Head(b))
    ELSE LexGreater(Tail(a), Tail(b))

\* a > b for two canonical numerals
NumeralGreater(a, b) ==
    \/ Len(a) > Len(b)
    \/ Len(a) = Len(b) /\ LexGreater(a, b)

\* The seven shapes of SqliteType
Shapes == {"BigInt", "Blob", "Boolean", "DateTime", "Integer", "Real", "Text"}

\* A SqliteType: `some` tells Some(..) from None; the payload is a string,
\* for numbers the sign, the canonical numeral and (Real) a decimal exponent.
SqliteValue(shape, some, neg, str, exp) ==
    [shape |-> shape, some |-> some, neg |-> neg, str |-> str, exp |-> exp]

\* A shape carrying no value, as the type table declares it: e.g. Integer(None)
Shape(shape) == SqliteValue(shape, FALSE, FALSE, <<>>, 0)

\* sqlite::Error
Error(kind, key, why) == [kind |-> kind, key |-> key, why |-> why]
UnknownKey(key) == Error("UnknownKey", key, "")

Ok(v) == [ok |-> TRUE, val |-> v]
Err(e) == [ok |-> FALSE, err |-> e]

\* core::num: digits are folded left to right; in each step an invalid digit
\* is reported before an overflow of the running value.  `seen` is the text
\* consumed so far, `limit` the largest magnitude of the type.
RECURSIVE FoldDigits(_, _, _, _)
FoldDigits(s, seen, neg, limit) ==
    IF s = <<>> THEN Ok(StripLeadingZeros(seen))
    ELSE IF Head(s) \notin Digits THEN Err("InvalidDigit")
    ELSE LET next == Append(seen, Head(s))
         IN  IF NumeralGreater(StripLeadingZeros(next), limit)
             THEN Err(IF neg THEN "NegOverflow" ELSE "PosOverflow")
             ELSE FoldDigits(Tail(s), next, neg, limit)

\* <i32 as FromStr>::from_str / <i64 as FromStr>::from_str, given the type's
\* largest value and the magnitude of its smallest
ParseSigned(s, max, minMagnitude) ==
    IF s = <<>> THEN Err("Empty")
    ELSE IF s \in {<<"+">>, <<"-">>} THEN Err("InvalidDigit")
    ELSE LET neg == Head(s) = "-"
             r   == IF neg THEN FoldDigits(Tail(s), <<>>, TRUE, minMagnitude)
                    ELSE IF Head(s) = "+" THEN FoldDigits(Tail(s), <<>>, FALSE, max)
                    ELSE FoldDigits(s, <<>>, FALSE, max)
         IN  IF r.ok THEN Ok([neg |-> neg /\ r.val # <<"0">>, str |-> r.val]) ELSE r

\* <bool as FromStr>::from_str: exactly "true" or "false"
ParseBool(s) ==
    IF s = <<"t", "r", "u", "e">> THEN Ok(s)
    ELSE IF s = <<"f", "a", "l", "s", "e">> THEN Ok(s)
    ELSE Err("ParseBool")

\* digits of s up to the first character that is not a digit
RECURSIVE DigitPrefix(_)
DigitPrefix(s) ==
    IF s = <<>> \/ Head(s) \notin Digits THEN <<>>
    ELSE <<Head(s)>> \o DigitPrefix(Tail(s))

\* mantissa m (a numeral) and exponent e with the trailing zeros of m moved
\* into e
RECURSIVE Normal(_, _)
Normal(m, e) ==
    IF m = <<"0">> THEN <<m, 0>>
    ELSE IF m[Len(m)] = "0" THEN Normal(SubSeq(m, 1, Len(m) - 1), e + 1)
    ELSE <<m, e>>

\* <f64 as FromStr>::from_str on plain decimal literals:
\* sign? (digits | digits '.' digits? | '.' digits); anything else is invalid.
\* The value is kept as sign, mantissa and decimal exponent.
ParseFloat(s) ==
    IF s = <<>> THEN Err("Empty")
    ELSE LET neg  == Head(s) = "-"
             body == IF Head(s) \in {"+", "-"} THEN Tail(s) ELSE s
             int  == DigitPrefix(body)
             rest == SubSeq(body, Len(int) + 1, Len(body))
             frac == IF rest # <<>> /\ Head(rest) = "." THEN DigitPrefix(Tail(rest)) ELSE <<>>
             tail == IF rest # <<>> /\ Head(rest) = "."
                     THEN SubSeq(rest, Len(frac) + 2, Len(rest)) ELSE rest
             n    == Normal(StripLeadingZeros(int \o frac), -Len(frac))
         IN  IF tail # <<>> \/ (int = <<>> /\ frac = <<>>) THEN Err("Invalid")
             ELSE Ok([neg |-> neg, str |-> n[1], exp |-> n[2]])

\* <DateTime<Utc> as FromStr>::from_str.  A timestamp needs at least the
\* twenty characters of "YYYY-MM-DDThh:mm:ssZ"; every shorter text is rejected
\* (Invalid at a character that cannot start a year, otherwise TooShort).
ParseDateTime(s) ==
    IF Len(s) >= 20 THEN Ok(s)
    ELSE IF \E i \in 1..Len(s) : i <= 4 /\ s[i] \notin Digits THEN Err("Invalid")
    ELSE Err("TooShort")

\* SqliteType::replace_and_return
replace_and_return(self, s) ==
    CASE self.shape = "BigInt" ->
            LET r == ParseSigned(s, I64Max, I64MinMagnitude)
            IN  IF r.ok THEN Ok(SqliteValue("BigInt", TRUE, r.val.neg, r.val.str, 0))
                ELSE Err(Error("ParseInt", <<>>, r.err))
      [] self.shape = "Blob" -> Ok(SqliteValue("Blob", TRUE, FALSE, s, 0))
      [] self.shape = "Boolean" ->
            LET r == ParseBool(s)
            IN  IF r.ok THEN Ok(SqliteValue("Boolean", TRUE, FALSE, r.val, 0))
                ELSE Err(Error("ParseBool", <<>>, r.err))
      [] self.shape = "DateTime" ->
            LET r == ParseDateTime(s)
            IN  IF r.ok THEN Ok(SqliteValue("DateTime", TRUE, FALSE, r.val, 0))
                ELSE Err(Error("ParseChrono", <<>>, r.err))
      [] self.shape = "Integer" ->
            LET r == ParseSigned(s, I32Max, I32MinMagnitude)
            IN  IF r.ok THEN Ok(SqliteValue("Integer", TRUE, r.val.neg, r.val.str, 0))
                ELSE Err(Error("ParseInt", <<>>, r.err))
      [] self.shape = "Real" ->
            LET r == ParseFloat(s)
            IN  IF r.ok THEN Ok(SqliteValue("Real", TRUE, r.val.neg, r.val.str, r.val.exp))
                ELSE Err(Error("ParseFloat", <<>>, r.err))
      [] self.shape = "Text" -> Ok(SqliteValue("Text", TRUE, FALSE, s, 0))

(***************************************************************************)
(* lib.rs: the canonical Expression tree (enum Node), the conversions      *)
(* from the raw tree, and Expression::from_str.                            *)
(***************************************************************************)
Node_And(left, right) == [node |-> "And", left |-> left, right |-> right]
Node_Or(left, right) == [node |-> "Or", left |-> left, right |-> right]
Node_Not(expr) == [node |-> "Not", expr |-> expr]
Node_Equal(key, target) == [node |-> "Equal", key |-> key, target |-> target]
Node_EqualCI(key, target) == [node |-> "EqualCI", key |-> key, target |-> target]
Node_Greater(key, target) == [node |-> "Greater", key |-> key, target |-> target]
Node_Less(key, target) == [node |-> "Less", key |-> key, target |-> target]
Node_Wildcard(key, target) == [node |-> "Wildcard", key |-> key, target |-> target]
Node_Regex(key, target) == [node |-> "Regex", key |-> key, target |-> target]
Node_Any(key, targets) == [node |-> "Any", key |-> key, targets |-> targets]
Node_Null(key) == [node |-> "Null", key |-> key]

\* impl From<Comparison> for Expression
from_comparison(cmp) ==
    CASE cmp.cmp = "IsEqual" -> Node_Equal(cmp.left, cmp.right)
      [] cmp.cmp = "IsEqualCI" -> Node_EqualCI(cmp.left, cmp.right)
      [] cmp.cmp = "IsGreater" -> Node_Greater(cmp.left, cmp.right)
      [] cmp.cmp = "IsLess" -> Node_Less(cmp.left, cmp.right)
      [] cmp.cmp = "IsWildcard" -> Node_Wildcard(cmp.left, cmp.right)
      [] cmp.cmp = "IsRegex" -> Node_Regex(cmp.left, cmp.right)
      [] cmp.cmp = "IsAny" -> Node_Any(cmp.left, cmp.array)
      [] cmp.cmp = "IsNull" -> Node_Null(cmp.left)

\* impl From<Box<Relation>> for Expression
RECURSIVE from_relation(_)

\* mutant of from_relation: the operands of the comparison-relation
\* conjunction change sides
from_relation_car_swapped(r) ==
    CASE r.rel = "C" -> from_comparison(r.c)
      [] r.rel = "Rar" -> Node_And(from_relation(r.left), from_relation(r.right))
      [] r.rel = "Rac" -> Node_And(from_relation(r.left), from_comparison(r.right))
      [] r.rel = "Car" -> Node_And(from_relation(r.right), from_comparison(r.left))
      [] r.rel = "Cac" -> Node_And(from_comparison(r.left), from_comparison(r.right))
      [] r.rel = "Ror" -> Node_Or(from_relation(r.left), from_relation(r.right))
      [] r.rel = "Roc" -> Node_Or(from_relation(r.left), from_comparison(r.right))
      [] r.rel = "Cor" -> Node_Or(from_comparison(r.left), from_relation(r.right))
      [] r.rel = "Coc" -> Node_Or(from_comparison(r.left), from_comparison(r.right))
      [] r.rel = "NR" -> Node_Not(from_relation(r.r))
      [] r.rel = "NC" -> Node_Not(from_comparison(r.c))

from_relation(r) ==
    CASE r.rel = "C" -> from_comparison(r.c)
      [] r.rel = "Rar" -> Node_And(from_relation(r.left), from_relation(r.right))
      [] r.rel = "Rac" -> Node_And(from_relation(r.left), from_comparison(r.right))
      [] r.rel = "Car" -> Node_And(from_comparison(r.left), from_relation(r.right))
      [] r.rel = "Cac" -> Node_And(from_comparison(r.left), from_comparison(r.right))
      [] r.rel = "Ror" -> Node_Or(from_relation(r.left), from_relation(r.right))
      [] r.rel = "Roc" -> Node_Or(from_relation(r.left), from_comparison(r.right))
      [] r.rel = "Cor" -> Node_Or(from_comparison(r.left), from_relation(r.right))
      [] r.rel = "Coc" -> Node_Or(from_comparison(r.left), from_comparison(r.right))
      [] r.rel = "NR" -> Node_Not(from_relation(r.r))
      [] r.rel = "NC" -> Node_Not(from_comparison(r.c))

\* impl FromStr for Expression: relation(s), its error mapped to
\* Error::Parser, and the tree (`.1`) of a success converted; the remaining
\* input (`.0`) is not looked at
from_str(s) ==
    LET r == relation(s)
    IN  IF ~r.ok THEN Err([kind |-> "Parser", at |-> r.at])
        ELSE Ok(from_relation(r.val))

\* the six leaf kinds that carry one operand
OperandKinds == {"Equal", "EqualCI", "Greater", "Less", "Wildcard", "Regex"}
LeafKinds == OperandKinds \cup {"Any", "Null"}

IsLeaf(e) == e.node \in LeafKinds

\* the leaves of a tree, left to right
RECURSIVE Leaves(_)
Leaves(e) ==
    CASE e.node \in {"And", "Or"} -> Leaves(e.left) \o Leaves(e.right)
      [] e.node = "Not" -> Leaves(e.expr)
      [] OTHER -> <<e>>

(***************************************************************************)
(* interpreter/sqlite.rs: interpret_expression.                            *)
(* A result is Ok with the clause and the binds, or Err with the error;    *)
(* `visited` lists the leaves the walk entered, in order.                  *)
(***************************************************************************)
Compiled(clause, binds, visited) ==
    [ok |-> TRUE, clause |-> clause, binds |-> binds, visited |-> visited]
Failed(err, visited) == [ok |-> FALSE, err |-> err, visited |-> visited]

\* mutant of column: the rename table is not consulted
column_without_renames(rn, key) == key

\* renames.get(key).unwrap_or(key)
column(rn, key) == IF contains_key(rn, key) THEN rn[key] ELSE key

\* types.get(key).ok_or(Error::UnknownKey(key.to_string()))?.replace_and_return(target)?
bind(ty, key, target) ==
    IF ~contains_key(ty, key) THEN Err(UnknownKey(key))
    ELSE replace_and_return(ty[key], target)

\* mutant of and_clause: the closing parenthesis is left out
and_clause_unclosed(left_clause, right_clause) ==
    <<"(">> \o left_clause \o <<" ", "A", "N", "D", " ">> \o right_clause

\* format!("({} AND {})", left_clause, right_clause)
and_clause(left_clause, right_clause) ==
    <<"(">> \o left_clause \o <<" ", "A", "N", "D", " ">> \o right_clause \o <<")">>

\* format!("({} OR {})", left_clause, right_clause)
or_clause(left_clause, right_clause) ==
    <<"(">> \o left_clause \o <<" ", "O", "R", " ">> \o right_clause \o <<")">>

\* format!("(NOT {})", clause)
not_clause(clause) == <<"(", "N", "O", "T", " ">> \o clause \o <<")">>

\* mutant of append: the right binds are put first
append_right_first(left_types, right_types) == right_types \o left_types

\* left_types.append(&mut right_types)
append(left_types, right_types) == left_types \o right_types

\* the operator text each one-operand arm puts after the column name
operator_of(node) ==
    CASE node = "Equal" -> <<" ", "=", " ", "?">>
      [] node = "EqualCI" -> <<" ", "L", "I", "K", "E", " ", "?">>
      [] node = "Greater" -> <<" ", ">", " ", "?">>
      [] node = "Less" -> <<" ", "<", " ", "?">>
      [] node = "Wildcard" -> <<" ", "L", "I", "K", "E", " ", "?">>
      [] node = "Regex" -> <<" ", "=", " ", "?">>

\* target.replace("*", "%").replace("?", "_")
wildcard_target(target) == replace(replace(target, "*", "%"), "?", "_")

\* mutant of bound_target: both LIKE arms translate the operand
bound_target_every_like(node, target) ==
    IF node \in {"Wildcard", "EqualCI"} THEN wildcard_target(target) ELSE target

\* the operand each one-operand arm hands to replace_and_return
bound_target(node, target) ==
    IF node = "Wildcard" THEN wildcard_target(target) ELSE target

\* mutant of conjunction: the right operand's error is looked at first
conjunction_right_first(l, r) ==
    IF ~r.ok THEN r
    ELSE IF ~l.ok THEN l
    ELSE Compiled(and_clause(l.clause, r.clause), append(l.binds, r.binds),
                  l.visited \o r.visited)

\* Node::And: both `?` in operand order, the left operand first
conjunction(l, r) ==
    IF ~l.ok THEN l
    ELSE IF ~r.ok THEN Failed(r.err, l.visited \o r.visited)
    ELSE Compiled(and_clause(l.clause, r.clause), append(l.binds, r.binds),
                  l.visited \o r.visited)

\* Node::Or
disjunction(l, r) ==
    IF ~l.ok THEN l
    ELSE IF ~r.ok THEN Failed(r.err, l.visited \o r.visited)
    ELSE Compiled(or_clause(l.clause, r.clause), append(l.binds, r.binds),
                  l.visited \o r.visited)

\* Node::Not
negation(inner) ==
    IF ~inner.ok THEN inner
    ELSE Compiled(not_clause(inner.clause), inner.binds, inner.visited)

\* Node::Equal .. Node::Regex: (format!("{} <op> ?", column), vec![bind?])
comparison_leaf(e, rn, ty) ==
    LET b == bind(ty, e.key, bound_target(e.node, e.target))
    IN  IF ~b.ok THEN Failed(b.err, <<e>>)
        ELSE Compiled(column(rn, e.key) \o operator_of(e.node), <<b.val>>, <<e>>)

\* targets.iter().map(|_| "?").collect::<Vec<_>>().join(", ")
placeholders(targets) == join([i \in 1..Len(targets) |-> <<"?">>], <<",", " ">>)

\* mutant of any_sql: the empty candidate list is not singled out
any_sql_always_in(rn, key, targets) ==
    column(rn, key) \o <<" ", "I", "N", " ", "(">> \o placeholders(targets) \o <<")">>

\* Node::Any, the text: "FALSE" for no candidates, else "<col> IN (?, ?)"
any_sql(rn, key, targets) ==
    IF targets = <<>> THEN <<"F", "A", "L", "S", "E">>
    ELSE column(rn, key) \o <<" ", "I", "N", " ", "(">> \o placeholders(targets) \o <<")">>

\* Node::Any, the loop `for target in targets.iter() { binds.push(..?) }`:
\* the first candidate that fails ends the loop with its error
RECURSIVE any_binds(_, _, _, _)
any_binds(ty, key, targets, binds) ==
    IF targets = <<>> THEN Ok(binds)
    ELSE LET b == bind(ty, key, Head(targets))
         IN  IF ~b.ok THEN b
             ELSE any_binds(ty, key, Tail(targets), Append(binds, b.val))

\* Node::Any
any_leaf(e, rn, ty) ==
    LET sql   == any_sql(rn, e.key, e.targets)
        binds == any_binds(ty, e.key, e.targets, <<>>)
    IN  IF ~binds.ok THEN Failed(binds.err, <<e>>)
        ELSE Compiled(sql, binds.val, <<e>>)

\* Node::Null
null_leaf(e, rn, ty) ==
    IF ~contains_key(ty, e.key) THEN Failed(UnknownKey(e.key), <<e>>)
    ELSE Compiled(column(rn, e.key) \o <<" ", "I", "S", " ", "N", "U", "L", "L">>, <<>>, <<e>>)

RECURSIVE sqlite_interpret_expression(_, _, _)
sqlite_interpret_expression(e, rn, ty) ==
    CASE e.node = "And" ->
            conjunction(sqlite_interpret_expression(e.left, rn, ty),
                        sqlite_interpret_expression(e.right, rn, ty))
      [] e.node = "Or" ->
            disjunction(sqlite_interpret_expression(e.left, rn, ty),
                        sqlite_interpret_expression(e.right, rn, ty))
      [] e.node = "Not" -> negation(sqlite_interpret_expression(e.expr, rn, ty))
      [] e.node \in OperandKinds -> comparison_leaf(e, rn, ty)
      [] e.node = "Any" -> any_leaf(e, rn, ty)
      [] e.node = "Null" -> null_leaf(e, rn, ty)

\* sqlite::interpret
sqlite_interpret(e, rn, ty) == sqlite_interpret_expression(e, rn, ty)

(***************************************************************************)
(* interpreter/evaluate.rs: EvaluateRule, its default functions, and       *)
(* interpret_expression.                                                   *)
(***************************************************************************)
\* the printable ASCII characters in byte order, from the space (byte 32) on;
\* byte 96, the grave accent, cannot be written in a string and is named
Ascii ==
    <<
      " ", "!", "\"", "#", "$", "%", "&", "'", "(", ")", "*", "+",
      ",", "-", ".", "/", "0", "1", "2", "3", "4", "5", "6", "7",
      "8", "9", ":", ";", "<", "=", ">", "?", "@", "A", "B", "C",
      "D", "E", "F", "G", "H", "I", "J", "K", "L", "M", "N", "O",
      "P", "Q", "R", "S", "T", "U", "V", "W", "X", "Y", "Z", "[",
      "\\", "]", "^", "_", "grave", "a", "b", "c", "d", "e", "f", "g",
      "h", "i", "j", "k", "l", "m", "n", "o", "p", "q", "r", "s",
      "t", "u", "v", "w", "x", "y", "z", "{", "|", "}", "~"
    >>

\* the byte of a character
Byte(ch) == 31 + (CHOOSE i \in 1..Len(Ascii) : Ascii[i] = ch)

UpperCase == {"A", "B", "C", "D", "E", "F", "G", "H", "I", "J", "K", "L", "M", "N", "O", "P", "Q", "R", "S", "T", "U", "V", "W", "X", "Y", "Z"}

\* char::to_lowercase / to_ascii_lowercase on ASCII
LowerChar(ch) == IF ch \in UpperCase THEN Ascii[Byte(ch) + 32 - 31] ELSE ch

\* str::to_lowercase
to_lowercase(s) == [i \in 1..Len(s) |-> LowerChar(s[i])]

\* str::eq_ignore_ascii_case
eq_ignore_ascii_case(a, b) == to_lowercase(a) = to_lowercase(b)

\* a > b for strings: byte-wise lexicographic order (impl Ord for str)
RECURSIVE str_greater(_, _)
str_greater(a, b) ==
    IF a = <<>> THEN FALSE
    ELSE IF b = <<>> THEN TRUE
    ELSE IF Head(a) # Head(b) THEN Byte(Head(a)) > Byte(Head(b))
    ELSE str_greater(Tail(a), Tail(b))

\* WildMatch::new(pattern).matches(value): `*` stands for any run of
\* characters, `?` for exactly one
RECURSIVE wild_matches(_, _)
wild_matches(pattern, value) ==
    IF pattern = <<>> THEN value = <<>>
    ELSE IF Head(pattern) = "*"
         THEN \E k \in 0..Len(value) :
                 wild_matches(Tail(pattern), SubSeq(value, k + 1, Len(value)))
    ELSE /\ value # <<>>
         /\ Head(pattern) = "?" \/ Head(pattern) = Head(value)
         /\ wild_matches(Tail(pattern), Tail(value))

\* Regex::new(pattern).is_err(), for patterns made of literal characters, `.`
\* and groups: a repetition operator with nothing to repeat and an unbalanced
\* parenthesis are rejected
RECURSIVE Balanced(_, _)
Balanced(pattern, depth) ==
    IF pattern = <<>> THEN depth = 0
    ELSE IF Head(pattern) = "(" THEN Balanced(Tail(pattern), depth + 1)
    ELSE IF Head(pattern) = ")" THEN depth > 0 /\ Balanced(Tail(pattern), depth - 1)
    ELSE Balanced(Tail(pattern), depth)

regex_is_err(pattern) ==
    \/ ~Balanced(pattern, 0)
    \/ \E i \in 1..Len(pattern) :
          /\ pattern[i] \in {"*", "?", "+"}
          /\ i = 1 \/ pattern[i - 1] \in {"(", "*", "?", "+"}

\* the pattern matches a prefix of the value
RECURSIVE regex_matches_at(_, _)
regex_matches_at(pattern, value) ==
    IF pattern = <<>> THEN TRUE
    ELSE IF Head(pattern) \in {"(", ")"} THEN regex_matches_at(Tail(pattern), value)
    ELSE /\ value # <<>>
         /\ Head(pattern) = "." \/ Head(pattern) = Head(value)
         /\ regex_matches_at(Tail(pattern), Tail(value))

\* Regex::is_match: the pattern matches somewhere in the value
regex_is_match(pattern, value) ==
    \E k \in 0..Len(value) : regex_matches_at(pattern, SubSeq(value, k + 1, Len(value)))

\* The functions a rule slot can point to: the eight defaults of
\* EvaluateRule::default() and functions a caller supplies instead.
\* `target` is the operand, the candidate list (is_in) or unused (is_none).
Apply(f, value, target) ==
    CASE f = "default_is_equal" -> value = target
      [] f = "default_is_equal_ci" -> to_lowercase(value) = to_lowercase(target)
      [] f = "default_is_greater_than" -> str_greater(value, target)
      [] f = "default_is_less_than" -> str_greater(target, value)
      [] f = "default_is_match_wildcard" -> wild_matches(target, value)
      [] f = "default_is_match_regex" ->
            IF regex_is_err(target) THEN FALSE ELSE regex_is_match(target, value)
      [] f = "default_is_in" -> \E i \in 1..Len(target) : target[i] = value
      [] f = "default_is_none" ->
            \/ eq_ignore_ascii_case(value, <<"n", "o", "n", "e">>)
            \/ eq_ignore_ascii_case(value, <<"n", "u", "l", "l">>)
      [] f = "custom_longer" -> Len(value) > Len(target)
      [] f = "custom_same_length" -> Len(value) = Len(target)
      [] f = "custom_always" -> TRUE
      [] f = "custom_never" -> FALSE

\* EvaluateRule::default()
DefaultRule ==
    [is_equal |-> "default_is_equal",
     is_equal_ci |-> "default_is_equal_ci",
     is_greater_than |-> "default_is_greater_than",
     is_less_than |-> "default_is_less_than",
     is_match_wildcard |-> "default_is_match_wildcard",
     is_match_regex |-> "default_is_match_regex",
     is_in |-> "default_is_in",
     is_none |-> "default_is_none"]

\* an EvaluateRule with every function overridden by the caller
CustomRule ==
    [is_equal |-> "custom_same_length",
     is_equal_ci |-> "custom_always",
     is_greater_than |-> "custom_longer",
     is_less_than |-> "custom_never",
     is_match_wildcard |-> "default_is_equal",
     is_match_regex |-> "default_is_equal_ci",
     is_in |-> "custom_longer",
     is_none |-> "custom_same_length"]

\* an evaluation: the boolean, and the rule functions applied, in order
Evaluation(value, applied) == [value |-> value, applied |-> applied]
Call(f, value, target) == [f |-> f, value |-> value, target |-> target]

\* mutant of selected: the two ordering slots are taken for each other
selected_orderings_swapped(rule, node) ==
    CASE node = "Equal" -> rule.is_equal
      [] node = "EqualCI" -> rule.is_equal_ci
      [] node = "Greater" -> rule.is_less_than
      [] node = "Less" -> rule.is_greater_than
      [] node = "Wildcard" -> rule.is_match_wildcard
      [] node = "Regex" -> rule.is_match_regex
      [] node = "Any" -> rule.is_in
      [] node = "Null" -> rule.is_none

\* the slot of the rule each leaf arm calls
selected(rule, node) ==
    CASE node = "Equal" -> rule.is_equal
      [] node = "EqualCI" -> rule.is_equal_ci
      [] node = "Greater" -> rule.is_greater_than
      [] node = "Less" -> rule.is_less_than
      [] node = "Wildcard" -> rule.is_match_wildcard
      [] node = "Regex" -> rule.is_match_regex
      [] node = "Any" -> rule.is_in
      [] node = "Null" -> rule.is_none

\* what a leaf hands to the rule function next to the value
operand(e) ==
    CASE e.node = "Any" -> e.targets
      [] e.node = "Null" -> <<>>
      [] OTHER -> e.target

\* the eight leaf arms: rules.get(key) and pairs.get(key), `return false` when
\* either is None, otherwise the selected function applied
evaluate_leaf(e, rl, pr) ==
    IF ~contains_key(rl, e.key) THEN Evaluation(FALSE, <<>>)
    ELSE IF ~contains_key(pr, e.key) THEN Evaluation(FALSE, <<>>)
    ELSE LET f == selected(rl[e.key], e.node)
         IN  Evaluation(Apply(f, pr[e.key], operand(e)), <<Call(f, pr[e.key], operand(e))>>)

\* mutant of evaluate_and: `||` written for `&&`
evaluate_and_as_or(l, r) ==
    IF l.value THEN l ELSE Evaluation(r.value, l.applied \o r.applied)

\* Node::And: left && right, the right operand only when the left is true
evaluate_and(l, r) ==
    IF l.value THEN Evaluation(r.value, l.applied \o r.applied) ELSE l

\* Node::Or: left || right, the right operand only when the left is false
evaluate_or(l, r) ==
    IF l.value THEN l ELSE Evaluation(r.value, l.applied \o r.applied)

\* mutant of evaluate_not: an operand that applied no rule function (its
\* fields are missing) stays false under the negation
evaluate_not_absent_stays_false(inner) ==
    IF inner.applied = <<>> THEN inner ELSE Evaluation(~inner.value, inner.applied)

\* Node::Not
evaluate_not(inner) == Evaluation(~inner.value, inner.applied)

RECURSIVE evaluate_interpret_expression(_, _, _)
evaluate_interpret_expression(e, rl, pr) ==
    CASE e.node = "And" ->
            evaluate_and(evaluate_interpret_expression(e.left, rl, pr),
                         evaluate_interpret_expression(e.right, rl, pr))
      [] e.node = "Or" ->
            evaluate_or(evaluate_interpret_expression(e.left, rl, pr),
                        evaluate_interpret_expression(e.right, rl, pr))
      [] e.node = "Not" -> evaluate_not(evaluate_interpret_expression(e.expr, rl, pr))
      [] OTHER -> evaluate_leaf(e, rl, pr)

\* evaluate::interpret
evaluate_interpret(e, rl, pr) == evaluate_interpret_expression(e, rl, pr)

(***************************************************************************)
(* The inputs the backends are run on.  Expression and Node are public, so *)
(* a caller can hand any tree to a backend, parsed or built by hand.       *)
(***************************************************************************)
\* field names: a plain one, and one holding the placeholder character
KeyA == <<"a">>
KeyB == <<"b", "?">>
Keys == {KeyA, KeyB}

\* physical column names a rename table maps to
Columns == {KeyB, <<"c">>}

\* operands
TargetEmpty == <<>>
TargetDigit == <<"7">>
TargetLetter == <<"x">>
TargetGlob == <<"x", "*", "?", "%", "_", "*">>
TargetBig == <<"2", "1", "4", "7", "4", "8", "3", "6", "4", "8">>
TargetTrue == <<"t", "r", "u", "e">>
TargetDecimal == <<"-", "1", ".", "5", "0">>
Targets ==
    {TargetEmpty, TargetDigit, TargetLetter, TargetGlob, TargetBig, TargetTrue, TargetDecimal}

\* candidates of membership leaves, and the candidate lists
Candidates == {TargetEmpty, TargetDigit, TargetLetter}
CandidateLists == SeqsUpTo(Candidates, MaxTargets)

\* every leaf over the given keys and operands
LeavesOver(keys, targets, lists) ==
    {[node |-> n, key |-> k, target |-> t] : n \in OperandKinds, k \in keys, t \in targets}
    \cup {Node_Any(k, ts) : k \in keys, ts \in lists}
    \cup {Node_Null(k) : k \in keys}

\* every tree of exactly n nodes over the given leaves
RECURSIVE TreesOfSize(_, _)
TreesOfSize(leaves, n) ==
    IF n = 1 THEN leaves
    ELSE {Node_Not(e) : e \in TreesOfSize(leaves, n - 1)}
         \cup UNION {UNION {{Node_And(l, r), Node_Or(l, r)} :
                              l \in TreesOfSize(leaves, i), r \in TreesOfSize(leaves, n - 1 - i)} :
                     i \in 1..(n - 2)}

\* every composite tree (two nodes or more) of at most n nodes
CompositesOver(leaves, n) == UNION {TreesOfSize(leaves, k) : k \in 2..n}

\* the leaves composite trees are built from
CompositeLeaves ==
    {Node_Equal(k, t) : k \in Keys, t \in {TargetDigit, TargetLetter}}
    \cup {Node_Wildcard(k, TargetGlob) : k \in Keys}
    \cup {Node_Any(k, ts) : k \in Keys, ts \in {<<>>, <<TargetLetter, TargetEmpty>>}}
    \cup {Node_Null(k) : k \in Keys}

SqliteLeaves == LeavesOver(Keys, Targets, CandidateLists)
SqliteComposites == CompositesOver(CompositeLeaves, MaxNodes)

SqliteTypesTables == MapsOver(Keys, {Shape(sh) : sh \in Shapes})
CompositeTypesTables == MapsOver(Keys, {Shape("Integer"), Shape("Text")})
SqliteRenamesTables == MapsOver(Keys, Columns)

(***************************************************************************)
(* The compiling backend as a state machine: a caller picks a tree and     *)
(* the two tables, then calls sqlite::interpret once.                      *)
(***************************************************************************)
InitSqlite ==
    /\ \/ expression \in SqliteLeaves /\ types \in SqliteTypesTables
       \/ expression \in SqliteComposites /\ types \in CompositeTypesTables
    /\ renames \in SqliteRenamesTables
    /\ rules = EmptyMap
    /\ pairs = EmptyMap
    /\ input = <<>>
    /\ compiled = NotRun
    /\ evaluated = NotRun
    /\ parsed = NotRun

Compile ==
    /\ compiled = NotRun
    /\ compiled' = [ran |-> TRUE, result |-> sqlite_interpret(expression, renames, types)]
    /\ UNCHANGED <<expression, renames, types, rules, pairs, input, evaluated, parsed>>

NextSqlite == Compile

SpecSqlite == InitSqlite /\ [][NextSqlite]_vars

(***************************************************************************)
(* Properties of the compiling backend, checked under SpecSqlite.          *)
(***************************************************************************)
Result == compiled.result

\* each leaf of the tree compiled on its own, in leaf order
LeafResults ==
    [i \in 1..Len(Leaves(expression)) |->
        sqlite_interpret(Leaves(expression)[i], renames, types)]

FailingLeaves == {i \in 1..Len(Leaves(expression)) : ~LeafResults[i].ok}

Least(S) == CHOOSE i \in S : \A j \in S : i <= j

\* the column name a leaf on field f is expected to emit
ExpectedColumn(f) == IF f \in DOMAIN renames THEN renames[f] ELSE f

RECURSIVE Flatten(_)
Flatten(seqs) == IF seqs = <<>> THEN <<>> ELSE Head(seqs) \o Flatten(Tail(seqs))

RECURSIVE Sum(_)
Sum(ns) == IF ns = <<>> THEN 0 ELSE Head(ns) + Sum(Tail(ns))

\* the texts subs occur in s one after the other, without overlap, from
\* position p on
RECURSIVE OccurInOrder(_, _, _)
OccurInOrder(s, subs, p) ==
    IF subs = <<>> THEN TRUE
    ELSE LET sub  == Head(subs)
             hits == {i \in p..(Len(s) - Len(sub) + 1) : SubSeq(s, i, i + Len(sub) - 1) = sub}
         IN  hits # {} /\ OccurInOrder(s, Tail(subs), Least(hits) + Len(sub))

\* C2 (as claimed): a tree holding a leaf on a field that the type table
\* does not declare never compiles to a fragment, and a single such leaf
\* yields the unknown-field error naming the field.
C2_UnknownFieldNeverCompiles ==
    compiled.ran =>
        /\ (\E i \in 1..Len(Leaves(expression)) : Leaves(expression)[i].key \notin DOMAIN types)
              => ~Result.ok
        /\ (IsLeaf(expression) /\ expression.key \notin DOMAIN types)
              => (~Result.ok /\ Result.err = UnknownKey(expression.key))

\* C4 (as claimed): in every successful compile the number of `?`
\* characters of the fragment equals the number of binds.
C4_OneMarkPerBind ==
    (compiled.ran /\ Result.ok) => CountChar(Result.clause, "?") = Len(Result.binds)

\* the `?` characters a leaf's column name brings into the fragment
ColumnMarks(leaf) ==
    IF leaf.node = "Any" /\ leaf.targets = <<>> THEN 0
    ELSE CountChar(ExpectedColumn(leaf.key), "?")

\* C4 (amended): in every successful compile the number of `?` characters of
\* the fragment equals the number of binds plus the `?` characters of the
\* emitted column names; the binds are the leaves' binds in leaf order, and the
\* leaves' fragments stand in the fragment in that same order.
C4_MarksMatchBinds ==
    (compiled.ran /\ Result.ok) =>
        LET ls == Leaves(expression)
        IN  /\ \A i \in 1..Len(ls) : LeafResults[i].ok
            /\ CountChar(Result.clause, "?")
                 = Len(Result.binds) + Sum([i \in 1..Len(ls) |-> ColumnMarks(ls[i])])
            /\ Result.binds = Flatten([i \in 1..Len(ls) |-> LeafResults[i].binds])
            /\ OccurInOrder(Result.clause, [i \in 1..Len(ls) |-> LeafResults[i].clause], 1)

\* C4 witness: a conjunction compiled to two different binds, with a column
\* name that itself holds a `?`
C4_Witness ==
    /\ compiled.ran /\ Result.ok
    /\ expression.node = "And"
    /\ Len(Result.binds) = 2 /\ Result.binds[1] # Result.binds[2]
    /\ CountChar(Result.clause, "?") > 2

\* C5: compile returns the error of the first leaf that fails in the
\* depth-first, left-to-right walk, enters no leaf after it, and returns
\* neither fragment nor binds; it succeeds only when every leaf compiles.  In
\* a conjunction or disjunction with a failing left operand the result is the
\* left operand's; a membership leaf on a declared field reports its first
\* unparsable candidate.
C5_FirstErrorWins ==
    compiled.ran =>
        LET ls == Leaves(expression)
        IN  /\ Result.ok <=> FailingLeaves = {}
            /\ FailingLeaves # {} =>
                  /\ Result.err = LeafResults[Least(FailingLeaves)].err
                  /\ Result.visited = SubSeq(ls, 1, Least(FailingLeaves))
                  /\ DOMAIN Result = {"ok", "err", "visited"}
            /\ expression.node \in {"And", "Or"} =>
                  LET l == sqlite_interpret(expression.left, renames, types)
                  IN  ~l.ok => Result = l
            /\ (expression.node = "Any" /\ expression.key \in DOMAIN types) =>
                  LET bad == {i \in 1..Len(expression.targets) :
                                ~replace_and_return(types[expression.key], expression.targets[i]).ok}
                  IN  bad # {} =>
                        /\ ~Result.ok
                        /\ Result.err = replace_and_return(types[expression.key],
                                                           expression.targets[Least(bad)]).err

\* C5 witness: a conjunction whose left operand is a membership leaf with two
\* unparsable candidates (different errors) and whose right operand fails
\* with a third error
C5_Witness ==
    /\ compiled.ran /\ ~Result.ok
    /\ expression.node = "And"
    /\ expression.left.node = "Any" /\ expression.left.key \in DOMAIN types
    /\ LET sh == types[expression.left.key]
           ts == expression.left.targets
       IN  /\ Len(ts) = 2
           /\ ~replace_and_return(sh, ts[1]).ok /\ ~replace_and_return(sh, ts[2]).ok
           /\ replace_and_return(sh, ts[1]).err # replace_and_return(sh, ts[2]).err
           /\ Result.err = replace_and_return(sh, ts[1]).err
    /\ ~sqlite_interpret(expression.right, renames, types).ok
    /\ sqlite_interpret(expression.right, renames, types).err # Result.err

\* C6: when both operands compile, a conjunction compiles to
\* "(<left> AND <right>)", a disjunction to "(<left> OR <right>)", each with
\* the left binds followed by the right binds; a negation compiles to
\* "(NOT <inner>)" with the inner binds.
C6_CompositeFragments ==
    compiled.ran =>
        /\ expression.node \in {"And", "Or"} =>
              LET l == sqlite_interpret(expression.left, renames, types)
                  r == sqlite_interpret(expression.right, renames, types)
                  word == IF expression.node = "And" THEN <<"A", "N", "D">> ELSE <<"O", "R">>
              IN  (l.ok /\ r.ok) =>
                    /\ Result.ok
                    /\ Result.clause = <<"(">> \o l.clause \o <<" ">> \o word \o <<" ">>
                                         \o r.clause \o <<")">>
                    /\ Result.binds = l.binds \o r.binds
        /\ expression.node = "Not" =>
              LET inner == sqlite_interpret(expression.expr, renames, types)
              IN  inner.ok =>
                    /\ Result.ok
                    /\ Result.clause = <<"(", "N", "O", "T", " ">> \o inner.clause \o <<")">>
                    /\ Result.binds = inner.binds

\* C6 witness: a conjunction or disjunction of two compiled operands with
\* different, non-empty bind lists
C6_Witness ==
    /\ compiled.ran /\ Result.ok
    /\ expression.node \in {"And", "Or"}
    /\ LET l == sqlite_interpret(expression.left, renames, types)
           r == sqlite_interpret(expression.right, renames, types)
       IN  l.binds # <<>> /\ r.binds # <<>> /\ l.binds # r.binds

\* "?" n times, separated by ", "
RECURSIVE Marks(_)
Marks(n) == IF n = 1 THEN <<"?">> ELSE Marks(n - 1) \o <<",", " ", "?">>

\* C7: a membership leaf on a declared field compiles to "FALSE" without binds
\* when it has no candidates; otherwise, when every candidate parses, to
\* "<col> IN (?, ?, ...)" with one `?` per candidate and the candidates parsed
\* against the declared shape, in input order.
C7_Membership ==
    (compiled.ran /\ expression.node = "Any" /\ expression.key \in DOMAIN types) =>
        LET ts == expression.targets
            sh == types[expression.key]
        IN  IF ts = <<>>
            THEN Result.ok /\ Result.clause = <<"F", "A", "L", "S", "E">> /\ Result.binds = <<>>
            ELSE (\A i \in 1..Len(ts) : replace_and_return(sh, ts[i]).ok) =>
                    /\ Result.ok
                    /\ Result.clause = ExpectedColumn(expression.key) \o <<" ", "I", "N", " ", "(">>
                                         \o Marks(Len(ts)) \o <<")">>
                    /\ Len(Result.binds) = Len(ts)
                    /\ \A i \in 1..Len(ts) :
                          Result.binds[i] = replace_and_return(sh, ts[i]).val

\* C7 witness: a membership leaf with two different candidates on a renamed,
\* declared field, compiled
C7_Witness ==
    /\ compiled.ran /\ Result.ok
    /\ expression.node = "Any" /\ expression.key \in DOMAIN types
    /\ expression.key \in DOMAIN renames
    /\ Len(expression.targets) = 2 /\ expression.targets[1] # expression.targets[2]
    /\ Result.binds[1] # Result.binds[2]

\* the operator text the claim fixes for each comparison kind
ExpectedOperator(node) ==
    CASE node \in {"Equal", "Regex"} -> <<" ", "=", " ", "?">>
      [] node \in {"EqualCI", "Wildcard"} -> <<" ", "L", "I", "K", "E", " ", "?">>
      [] node = "Greater" -> <<" ", ">", " ", "?">>
      [] node = "Less" -> <<" ", "<", " ", "?">>
      [] node = "Null" -> <<" ", "I", "S", " ", "N", "U", "L", "L">>

\* C8: a leaf on a declared field f emits renames[f] when f is renamed and f
\* otherwise, followed by the operator of its kind, with one bind (none for
\* the null check); the shape is the one declared for f, also when the
\* column f is renamed to is declared with another shape.
C8_LeafFragments ==
    (compiled.ran /\ expression.node \in OperandKinds \cup {"Null"}
                  /\ expression.key \in DOMAIN types) =>
        /\ Result.ok =>
              /\ Result.clause = ExpectedColumn(expression.key) \o ExpectedOperator(expression.node)
              /\ Len(Result.binds) = IF expression.node = "Null" THEN 0 ELSE 1
              /\ expression.node # "Null" =>
                    /\ Result.binds[1].shape = types[expression.key].shape
                    /\ Result.binds[1].some
        /\ expression.node = "Null" => Result.ok
        /\ expression.node \notin {"Null", "Wildcard"} =>
              (Result.ok <=> replace_and_return(types[expression.key], expression.target).ok)

\* C8 witness: a compiled leaf on a field renamed to a column that the type
\* table declares with another shape
C8_Witness ==
    /\ compiled.ran /\ Result.ok
    /\ expression.node \in OperandKinds
    /\ expression.key \in DOMAIN types /\ expression.key \in DOMAIN renames
    /\ renames[expression.key] \in DOMAIN types
    /\ types[renames[expression.key]].shape # types[expression.key].shape
    /\ ~replace_and_return(types[renames[expression.key]], expression.target).ok

\* the wildcard translation, character by character
Translated(target) ==
    [i \in 1..Len(target) |->
        IF target[i] = "*" THEN "%" ELSE IF target[i] = "?" THEN "_" ELSE target[i]]

\* C9: a wildcard leaf binds its operand with every `*` turned into `%` and
\* every `?` into `_`, each character once, translated before it is parsed
\* against the declared shape; every other kind binds the operand as it is.
C9_WildcardTranslation ==
    (compiled.ran /\ expression.node \in OperandKinds /\ expression.key \in DOMAIN types) =>
        LET sh   == types[expression.key]
            want == IF expression.node = "Wildcard"
                    THEN replace_and_return(sh, Translated(expression.target))
                    ELSE replace_and_return(sh, expression.target)
        IN  /\ Result.ok <=> want.ok
            /\ Result.ok => Result.binds = <<want.val>>
            /\ ~Result.ok => Result.err = want.err

\* C9 witness: a wildcard leaf on a text field whose operand holds `*`, `?`,
\* `%` and `_`
C9_Witness ==
    /\ compiled.ran /\ Result.ok
    /\ expression.node = "Wildcard"
    /\ {"*", "?", "%", "_"} \subseteq {expression.target[i] : i \in 1..Len(expression.target)}
    /\ Result.binds[1].shape = "Text"
    /\ Result.binds[1].str # expression.target

(***************************************************************************)
(* The evaluation backend as a state machine: a caller picks a tree, a     *)
(* rule table and a value record, then calls evaluate::interpret once.     *)
(***************************************************************************)
ValueLower == <<"x">>
ValueUpper == <<"X">>
ValueLong == <<"x", "y">>
ValueNull == <<"N", "u", "L", "l">>
Values == {ValueLower, ValueUpper, ValueLong, ValueNull}

EvaluateTargets == {<<"x">>, <<"X">>, <<"*">>, <<".">>, <<"(">>}
EvaluateCandidateLists == SeqsUpTo({ValueLower, ValueUpper, ValueLong}, MaxTargets)

EvaluateLeaves == LeavesOver(Keys, EvaluateTargets, EvaluateCandidateLists)

EvaluateCompositeLeaves ==
    {Node_Equal(k, ValueLower) : k \in Keys}
    \cup {Node_Greater(k, ValueUpper) : k \in Keys}
    \cup {Node_Wildcard(k, <<"*">>) : k \in Keys}
    \cup {Node_Any(k, <<ValueLower, ValueLong>>) : k \in Keys}
    \cup {Node_Null(k) : k \in Keys}

EvaluateComposites == CompositesOver(EvaluateCompositeLeaves, MaxNodes)

EvaluateRulesTables == MapsOver(Keys, {DefaultRule, CustomRule})
EvaluatePairsTables == MapsOver(Keys, Values)

InitEvaluate ==
    /\ expression \in EvaluateLeaves \cup EvaluateComposites
    /\ rules \in EvaluateRulesTables
    /\ pairs \in EvaluatePairsTables
    /\ renames = EmptyMap
    /\ types = EmptyMap
    /\ input = <<>>
    /\ compiled = NotRun
    /\ evaluated = NotRun
    /\ parsed = NotRun

Evaluate ==
    /\ evaluated = NotRun
    /\ evaluated' = [ran |-> TRUE, result |-> evaluate_interpret(expression, rules, pairs)]
    /\ UNCHANGED <<expression, renames, types, rules, pairs, input, compiled, parsed>>

NextEvaluate == Evaluate

SpecEvaluate == InitEvaluate /\ [][NextEvaluate]_vars

(***************************************************************************)
(* Properties of the evaluation backend, checked under SpecEvaluate.       *)
(***************************************************************************)
Outcome == evaluated.result

\* the rule function the claim assigns to each comparison kind
ExpectedFunction(rule, node) ==
    IF node = "Equal" THEN rule.is_equal
    ELSE IF node = "EqualCI" THEN rule.is_equal_ci
    ELSE IF node = "Greater" THEN rule.is_greater_than
    ELSE IF node = "Less" THEN rule.is_less_than
    ELSE IF node = "Wildcard" THEN rule.is_match_wildcard
    ELSE IF node = "Regex" THEN rule.is_match_regex
    ELSE IF node = "Any" THEN rule.is_in
    ELSE rule.is_none

\* C1: evaluate returns a boolean for every tree, rule table and record; a
\* leaf on a field missing from the rule table or from the record is false
\* and applies no rule function; a leaf on a field present in both is the rule
\* function of its kind applied to the value and the operand (the candidate
\* list for membership, the value alone for the null check).
C1_EvaluateTotal ==
    evaluated.ran =>
        /\ Outcome.value \in BOOLEAN
        /\ IsLeaf(expression) =>
              IF expression.key \notin DOMAIN rules \/ expression.key \notin DOMAIN pairs
              THEN Outcome.value = FALSE /\ Outcome.applied = <<>>
              ELSE LET f     == ExpectedFunction(rules[expression.key], expression.node)
                       value == pairs[expression.key]
                       arg   == IF expression.node = "Any" THEN expression.targets
                                ELSE IF expression.node = "Null" THEN <<>>
                                ELSE expression.target
                   IN  /\ Outcome.value = Apply(f, value, arg)
                       /\ Outcome.applied = <<[f |-> f, value |-> value, target |-> arg]>>

\* C1 witness: a leaf whose field is in the rule table but not in the record
\* has been evaluated, with another field present in both
C1_Witness ==
    /\ evaluated.ran /\ IsLeaf(expression)
    /\ expression.key \in DOMAIN rules /\ expression.key \notin DOMAIN pairs
    /\ DOMAIN pairs # {}
    /\ Outcome.value = FALSE

\* both operands always evaluated: leaves as the backend evaluates them,
\* composites by the logical connectives
RECURSIVE Denotation(_)
Denotation(e) ==
    IF e.node = "And" THEN Denotation(e.left) /\ Denotation(e.right)
    ELSE IF e.node = "Or" THEN Denotation(e.left) \/ Denotation(e.right)
    ELSE IF e.node = "Not" THEN ~Denotation(e.expr)
    ELSE evaluate_interpret(e, rules, pairs).value

\* C10: a conjunction evaluates to the logical AND of its operands'
\* evaluations, a disjunction to the OR, a negation to the NOT, and the
\* short-circuiting walk returns the boolean that evaluating every operand
\* returns.
C10_Connectives ==
    evaluated.ran =>
        /\ Outcome.value = Denotation(expression)
        /\ expression.node = "And" =>
              Outcome.value = (evaluate_interpret(expression.left, rules, pairs).value
                               /\ evaluate_interpret(expression.right, rules, pairs).value)
        /\ expression.node = "Or" =>
              Outcome.value = (evaluate_interpret(expression.left, rules, pairs).value
                               \/ evaluate_interpret(expression.right, rules, pairs).value)
        /\ expression.node = "Not" =>
              Outcome.value = ~evaluate_interpret(expression.expr, rules, pairs).value

\* C10 witness: a conjunction whose left operand is false and whose right
\* operand is true, so that the right operand was skipped
C10_Witness ==
    /\ evaluated.ran /\ expression.node = "And"
    /\ ~evaluate_interpret(expression.left, rules, pairs).value
    /\ evaluate_interpret(expression.right, rules, pairs).value
    /\ evaluate_interpret(expression.right, rules, pairs).applied # <<>>
    /\ Outcome.applied = evaluate_interpret(expression.left, rules, pairs).applied
    /\ Outcome.value = FALSE

\* the field is missing from the rule table or from the value record
Missing(key) == key \notin DOMAIN rules \/ key \notin DOMAIN pairs

\* the value of a tree in which every leaf on a missing field is the constant
\* false and every other leaf is what the backend evaluates it to
RECURSIVE WithMissingFalse(_)
WithMissingFalse(e) ==
    CASE e.node = "And" -> WithMissingFalse(e.left) /\ WithMissingFalse(e.right)
      [] e.node = "Or" -> WithMissingFalse(e.left) \/ WithMissingFalse(e.right)
      [] e.node = "Not" -> ~WithMissingFalse(e.expr)
      [] OTHER -> IF Missing(e.key) THEN FALSE
                  ELSE evaluate_interpret(e, rules, pairs).value

\* C14: a negation whose operand is a leaf on a field missing from the rule
\* table or from the value record evaluates to true, and for any tree the
\* result equals the one obtained with every leaf on a missing field replaced
\* by the constant false: a missing field is never an unknown that passes
\* through a negation.
C14_MissingFieldIsFalse ==
    evaluated.ran =>
        /\ Outcome.value \in BOOLEAN
        /\ Outcome.value = WithMissingFalse(expression)
        /\ (expression.node = "Not" /\ IsLeaf(expression.expr) /\ Missing(expression.expr.key))
              => Outcome.value = TRUE

\* C14 witness: the negation of a leaf whose field has a rule but no value,
\* in a record that holds another field, has been evaluated to true
C14_Witness ==
    /\ evaluated.ran
    /\ expression.node = "Not" /\ IsLeaf(expression.expr)
    /\ expression.expr.key \in DOMAIN rules /\ expression.expr.key \notin DOMAIN pairs
    /\ DOMAIN pairs # {}
    /\ Outcome.value = TRUE

(***************************************************************************)
(* The parser as a state machine: a caller picks a query text and calls    *)
(* Expression::from_str once.  The texts are raw trees written out in the  *)
(* grammar, with or without spaces, whole, cut short, or followed by more  *)
(* characters.                                                             *)
(***************************************************************************)
\* a text literal's content with `\` and `"` escaped
RECURSIVE escape(_)
escape(t) ==
    IF t = <<>> THEN <<>>
    ELSE (IF Head(t) \in {"\\", "\""} THEN <<"\\", Head(t)>> ELSE <<Head(t)>>) \o escape(Tail(t))

WrittenText(t) == <<"\"">> \o escape(t) \o <<"\"">>

WrittenArray(ts, sp) ==
    <<"[">> \o sp \o join([i \in 1..Len(ts) |-> WrittenText(ts[i])], sp \o <<",">> \o sp)
            \o sp \o <<"]">>

OperatorOf(kind) ==
    CASE kind = "IsEqual" -> "="
      [] kind = "IsEqualCI" -> "~"
      [] kind = "IsGreater" -> ">"
      [] kind = "IsLess" -> "<"
      [] kind = "IsWildcard" -> "*"
      [] kind = "IsRegex" -> "$"
      [] kind = "IsAny" -> "?"
      [] kind = "IsNull" -> "-"

WrittenComparison(cmp, sp) ==
    WrittenText(cmp.left) \o sp \o <<OperatorOf(cmp.cmp)>>
        \o (IF cmp.cmp = "IsNull" THEN <<>>
            ELSE IF cmp.cmp = "IsAny" THEN sp \o WrittenArray(cmp.array, sp)
            ELSE sp \o WrittenText(cmp.right))

RECURSIVE WrittenRelation(_, _)
WrittenRelation(r, sp) ==
    <<"(">> \o sp \o
    (CASE r.rel = "C" -> WrittenComparison(r.c, sp)
       [] r.rel = "NC" -> <<"!">> \o sp \o WrittenComparison(r.c, sp)
       [] r.rel = "NR" -> <<"!">> \o sp \o WrittenRelation(r.r, sp)
       [] OTHER ->
            (IF r.rel \in LeftRelationForms THEN WrittenRelation(r.left, sp)
             ELSE WrittenComparison(r.left, sp))
            \o sp \o (IF r.rel \in ConjunctionForms THEN <<"&">> ELSE <<"|">>) \o sp
            \o (IF r.rel \in RightRelationForms THEN WrittenRelation(r.right, sp)
                ELSE WrittenComparison(r.right, sp)))
    \o sp \o <<")">>

\* every raw leaf over the given field names, operands and candidate lists
ComparisonsOver(fields, operands, lists) ==
    {Comparison(ComparisonKind(op), f, t) : op \in OperandOperators, f \in fields, t \in operands}
    \cup {Comparison_IsAny(f, ts) : f \in fields, ts \in lists}
    \cup {Comparison_IsNull(f) : f \in fields}

\* every raw tree of exactly n nodes (leaves and connectives) over the leaves
RECURSIVE RelationsOfSize(_, _)
RelationsOfSize(cmps, n) ==
    IF n = 1 THEN {Relation_C(k) : k \in cmps}
    ELSE {Relation_NR(r) : r \in RelationsOfSize(cmps, n - 1)}
         \cup (IF n = 2 THEN {Relation_NC(k) : k \in cmps} ELSE {})
         \cup (IF n = 3 THEN {Relation_Binary(f, k1, k2) :
                                f \in {"Cac", "Coc"}, k1 \in cmps, k2 \in cmps}
               ELSE {})
         \cup (IF n < 3 THEN {}
               ELSE {Relation_Binary(f, r, k) :
                       f \in {"Rac", "Roc"}, r \in RelationsOfSize(cmps, n - 2), k \in cmps}
                    \cup {Relation_Binary(f, k, r) :
                            f \in {"Car", "Cor"}, k \in cmps, r \in RelationsOfSize(cmps, n - 2)}
                    \cup UNION {{Relation_Binary(f, l, r) :
                                   f \in {"Rar", "Ror"}, l \in RelationsOfSize(cmps, i),
                                   r \in RelationsOfSize(cmps, n - 1 - i)} :
                                i \in 1..(n - 2)})

FieldNames == {<<"a">>, <<>>}
Operands == {<<>>, <<"b">>, <<"\\", "\"">>}
OperandLists == SeqsUpTo({<<"b">>, <<"\\", "\"">>}, MaxTargets)

CoreComparisons ==
    {Comparison("IsEqual", <<"a">>, <<"b">>),
     Comparison_IsAny(<<"a">>, <<<<"b">>>>),
     Comparison_IsNull(<<"a">>)}

Relations ==
    {Relation_C(k) : k \in ComparisonsOver(FieldNames, Operands, OperandLists)}
    \cup UNION {RelationsOfSize(CoreComparisons, n) : n \in 1..MaxNodes}

\* what may follow a written relation
Trailers == {<<>>, <<" ">>, <<"x">>, <<")">>, <<"(", "\"", "a", "\"", "-", ")">>}

Queries ==
    {WrittenRelation(r, sp) \o trailer : r \in Relations, sp \in {<<>>, <<" ">>}, trailer \in Trailers}
    \cup UNION {{SubSeq(WrittenRelation(r, <<>>), 1, k) : k \in 0..(Len(WrittenRelation(r, <<>>)) - 1)} :
                r \in Relations}

InitParse ==
    /\ input \in Queries
    /\ expression = Node_Null(<<>>)
    /\ renames = EmptyMap
    /\ types = EmptyMap
    /\ rules = EmptyMap
    /\ pairs = EmptyMap
    /\ compiled = NotRun
    /\ evaluated = NotRun
    /\ parsed = NotRun

FromStr ==
    /\ parsed = NotRun
    /\ parsed' = [ran |-> TRUE, result |-> from_str(input)]
    /\ UNCHANGED <<expression, renames, types, rules, pairs, input, compiled, evaluated>>

NextParse == FromStr

SpecParse == InitParse /\ [][NextParse]_vars

(***************************************************************************)
(* Properties of the parser, checked under SpecParse.                      *)
(***************************************************************************)
\* C3 (as claimed): a text that is a well-formed relation followed by at
\* least one more character is a syntax error, and a tree is returned only
\* when the relation consumes the whole text.
C3_TrailingInputRejected ==
    parsed.ran =>
        /\ (relation(input).ok /\ relation(input).rest # <<>>) => ~parsed.result.ok
        /\ parsed.result.ok => (relation(input).ok /\ relation(input).rest = <<>>)

\* C11 (as claimed): every leaf of every tree from_str returns has a
\* non-empty field name; no accepted text, in particular none with the empty
\* literal "" in the field position, gives a leaf whose field name is empty.
C11_FieldNamesNonEmpty ==
    (parsed.ran /\ parsed.result.ok) =>
        \A i \in 1..Len(Leaves(parsed.result.val)) : Leaves(parsed.result.val)[i].key # <<>>

\* the canonical leaf kind of each raw leaf kind
CanonicalKind(kind) ==
    IF kind = "IsEqual" THEN "Equal"
    ELSE IF kind = "IsEqualCI" THEN "EqualCI"
    ELSE IF kind = "IsGreater" THEN "Greater"
    ELSE IF kind = "IsLess" THEN "Less"
    ELSE IF kind = "IsWildcard" THEN "Wildcard"
    ELSE IF kind = "IsRegex" THEN "Regex"
    ELSE IF kind = "IsAny" THEN "Any"
    ELSE "Null"

\* e is the leaf of the same kind as the raw leaf cmp, on the same field, with
\* the same operand or candidates
SameLeaf(cmp, e) ==
    /\ "node" \in DOMAIN e /\ e.node = CanonicalKind(cmp.cmp)
    /\ "key" \in DOMAIN e /\ e.key = cmp.left
    /\ IF cmp.cmp = "IsNull" THEN DOMAIN e = {"node", "key"}
       ELSE IF cmp.cmp = "IsAny"
            THEN DOMAIN e = {"node", "key", "targets"} /\ e.targets = cmp.array
       ELSE DOMAIN e = {"node", "key", "target"} /\ e.target = cmp.right

\* e is the canonical tree the claim gives the raw tree r
RECURSIVE SameStructure(_, _)
SameStructure(r, e) ==
    IF r.rel = "C" THEN SameLeaf(r.c, e)
    ELSE IF r.rel = "NC"
         THEN DOMAIN e = {"node", "expr"} /\ e.node = "Not" /\ SameLeaf(r.c, e.expr)
    ELSE IF r.rel = "NR"
         THEN DOMAIN e = {"node", "expr"} /\ e.node = "Not" /\ SameStructure(r.r, e.expr)
    ELSE /\ DOMAIN e = {"node", "left", "right"}
         /\ e.node = (IF r.rel \in ConjunctionForms THEN "And" ELSE "Or")
         /\ IF r.rel \in LeftRelationForms THEN SameStructure(r.left, e.left)
            ELSE SameLeaf(r.left, e.left)
         /\ IF r.rel \in RightRelationForms THEN SameStructure(r.right, e.right)
            ELSE SameLeaf(r.right, e.right)

\* the relations [r] of a set whose form is C, as the comparisons they wrap
Unwrapped(rs) == {r.c : r \in {x \in rs : x.rel = "C"}}

\* the raw trees that differ from r only in the forms used: the same
\* connectives and operands, each operand that is one comparison written
\* either as a comparison or as the relation wrapping it
RECURSIVE OtherForms(_)
OtherForms(r) ==
    IF r.rel = "C" THEN {r}
    ELSE IF r.rel \in {"NR", "NC"}
         THEN LET inner == IF r.rel = "NR" THEN OtherForms(r.r) ELSE {Relation_C(r.c)}
              IN  {Relation_NR(i) : i \in inner} \cup {Relation_NC(k) : k \in Unwrapped(inner)}
    ELSE LET ls   == IF r.rel \in LeftRelationForms THEN OtherForms(r.left)
                     ELSE {Relation_C(r.left)}
             rs   == IF r.rel \in RightRelationForms THEN OtherForms(r.right)
                     ELSE {Relation_C(r.right)}
             conj == r.rel \in ConjunctionForms
         IN  {Relation_Binary(IF conj THEN "Rar" ELSE "Ror", l, rr) : l \in ls, rr \in rs}
             \cup {Relation_Binary(IF conj THEN "Rac" ELSE "Roc", l, k) :
                     l \in ls, k \in Unwrapped(rs)}
             \cup {Relation_Binary(IF conj THEN "Car" ELSE "Cor", k, rr) :
                     k \in Unwrapped(ls), rr \in rs}
             \cup {Relation_Binary(IF conj THEN "Cac" ELSE "Coc", k1, k2) :
                     k1 \in Unwrapped(ls), k2 \in Unwrapped(rs)}

\* the raw tree the parser read from the text
Raw == relation(input).val

\* C12: every raw tree converts, without failure, to one canonical tree: a
\* conjunction form to And and a disjunction form to Or with the converted
\* left operand on the left and the converted right operand on the right, a
\* negation form to Not of the converted operand, a comparison to the leaf of
\* the same kind, field and operands; raw trees that differ only in the forms
\* used convert to the same canonical tree.
C12_ConversionPreservesStructure ==
    (parsed.ran /\ relation(input).ok) =>
        /\ parsed.result.ok
        /\ SameStructure(Raw, parsed.result.val)
        /\ \A other \in OtherForms(Raw) : from_relation(other) = parsed.result.val

\* C12 witness: a comparison-relation conjunction has been converted to an
\* And, and a tree written in another form has the same operands
C12_Witness ==
    /\ parsed.ran /\ relation(input).ok /\ parsed.result.ok
    /\ Raw.rel = "Car" /\ parsed.result.val.node = "And"
    /\ Raw.left # Raw.right.c
    /\ \E other \in OtherForms(Raw) : other.rel = "Rar" /\ other \in Relations

(***************************************************************************)
(* The text-literal parser as a state machine: a caller writes a string    *)
(* as a text literal, escaping `\` and `"`, and atom::text reads it.       *)
(***************************************************************************)
\* backslash, double quote and an ordinary character
TextAlphabet == {"\\", "\"", "x"}
Literals == SeqsUpTo(TextAlphabet, MaxLen)

InitText ==
    /\ input \in {WrittenText(s) : s \in Literals}
    /\ expression = Node_Null(<<>>)
    /\ renames = EmptyMap
    /\ types = EmptyMap
    /\ rules = EmptyMap
    /\ pairs = EmptyMap
    /\ compiled = NotRun
    /\ evaluated = NotRun
    /\ parsed = NotRun

ParseText ==
    /\ parsed = NotRun
    /\ parsed' = [ran |-> TRUE, result |-> text(input)]
    /\ UNCHANGED <<expression, renames, types, rules, pairs, input, compiled, evaluated>>

NextText == ParseText

SpecText == InitText /\ [][NextText]_vars

(***************************************************************************)
(* Properties of text literals, checked under SpecText.                    *)
(***************************************************************************)
\* C13: unescaping is the inverse of escaping: for every string s of
\* backslashes, double quotes and ordinary characters, escaping s and then
\* replacing every `\\` by `\` and after that every `\"` by `"` gives s again,
\* so the literal written for s is read back as s.
C13_UnescapeInvertsEscape ==
    parsed.ran =>
        \A s \in Literals :
            input = WrittenText(s) =>
                /\ unescape(escape(s)) = s
                /\ parsed.result.ok
                /\ parsed.result.rest = <<>>
                /\ parsed.result.val = s

\* C13 witness: a literal in which an escaped backslash is immediately
\* followed by an escaped double quote has been read
C13_Witness ==
    /\ parsed.ran /\ parsed.result.ok
    /\ input = <<"\"", "\\", "\\", "\\", "\"", "\"">>
    /\ parsed.result.val = <<"\\", "\"">>

====
